---------------------------- MODULE Spec2Model ----------------------------
(***************************************************************************)
(* Regret matching and counterfactual regret minimisation (CFR) of the     *)
(* imperfecto package: the regret-matching strategy rule, the concrete     *)
(* games, the recursive CFR traversal and the normal-form trainer.         *)
(*                                                                         *)
(* numpy float arrays are modelled as sequences of exact rationals         *)
(* <<numerator, denominator>> (denominator > 0, lowest terms); a division  *)
(* by zero yields the non-finite value NaN == <<0, 0>>, as numpy yields    *)
(* nan/inf instead of raising.  Action a (0-based IntEnum value) of a      *)
(* vector lives at index a + 1.                                            *)
(***************************************************************************)
EXTENDS Integers, Sequences, FiniteSets, TLC

VARIABLES
    \* --- RegretMatchingPlayer.regret_matching_strategy called on its own
    rm_pc,          \* "ready" before the call, "done" after it
    rm_arg0,        \* the regret vector as it was when the call was made
    rm_regrets,     \* the caller's regret array (after the call once done)
    rm_ret,         \* the returned action_probs
    \* --- a concrete game queried on its own
    g_pc, g_game, g_history, g_terminal, g_payoffs,
    g_active,       \* <<what get_active_player returned>>, <<>> before
    g_infostate,    \* <<what get_infostate returned>>, <<>> before
    g_play_log,     \* the choices play() has made: player, infostate, action
    \* --- counterfactualRegretMinimizerTrainer and its players
    game,           \* the game class the trainer was built with
    cum_regrets,    \* player_id -> (infostate -> regret vector)
    strategy,       \* player_id -> (infostate -> instantaneous strategy)
    strategy_sum,   \* player_id -> (infostate -> cumulative strategy)
    pc,             \* "idle" | "loop" | "cfr" | "report"
    n_iters,        \* trainer.n_iters of the running train call
    i,              \* loop index of train
    utils,          \* the local utils of train
    stack,          \* call stack of cfr, innermost frame last
    avg_strats,     \* avg_strats computed at the end of train
    total_iters,    \* iterations run so far over all train calls
    n_calls,        \* completed train calls
    chance_log,     \* chance actions sampled so far, one per iteration
    node_log,       \* nodes entered by the running top-level cfr call
    snap,           \* the players' tables when the running train call began
    iter_snap,      \* the players' tables when the running iteration began
    report_snap,    \* strategy_sum when train left its loop
    call_log,       \* the cfr calls that returned in the running iteration
    last_call,      \* the cfr call that took the latest step, if one did
    \* --- NormalFormTrainer and its RegretMatchingPlayers
    nf_game, nf_pc, nf_cum_regrets, nf_n_iters, nf_i, nf_freeze_ls,
    nf_ep_payoffs, nf_ep_histories, nf_ep_strategies, nf_snap,
    nf_updated, nf_games_played, nf_calls, nf_ret,
    nf_players,     \* the player list: n_actions of each RegretMatchingPlayer
    nf_game_snap,   \* the players' cum_regrets before the latest game
    nf_held,        \* per game played, the strategies held when it was played
    nf_played,      \* per game played, what play returned and the freeze_ls
    nf_call_start,  \* games played before the running train call
    nf_avg          \* what avg_payoffs and avg_strategies gave when read
                    \* since the latest train call

rm_vars == <<rm_pc, rm_arg0, rm_regrets, rm_ret>>
g_vars == <<g_pc, g_game, g_history, g_terminal, g_payoffs, g_active,
            g_infostate, g_play_log>>
cfr_vars == <<game, cum_regrets, strategy, strategy_sum, pc, n_iters, i, utils,
              stack, avg_strats, total_iters, n_calls, chance_log, node_log,
              snap, iter_snap, report_snap, call_log, last_call>>
nf_vars == <<nf_game, nf_pc, nf_cum_regrets, nf_n_iters, nf_i, nf_freeze_ls,
             nf_ep_payoffs, nf_ep_histories, nf_ep_strategies, nf_snap,
             nf_updated, nf_games_played, nf_calls, nf_ret, nf_players,
             nf_game_snap, nf_held, nf_played, nf_call_start,
             nf_avg>>
vars == <<rm_vars, g_vars, cfr_vars, nf_vars>>

---------------------------------------------------------------------------
(* Bounds of the model *)

MaxLen == 3          \* longest regret vector handed to the strategy rule
MaxRegret == 2       \* largest absolute integer regret in those vectors
MaxHist == 4         \* longest history handed to a game on its own
MaxIters == 3        \* CFR iterations over all train calls of a trainer
MaxGames == 2        \* games played over all train calls of a trainer

---------------------------------------------------------------------------
(* Exact rational arithmetic standing in for float64 *)

Abs(n) == IF n < 0 THEN -n ELSE n

RECURSIVE GCD(_, _)
GCD(a, b) == IF b = 0 THEN a ELSE GCD(b, a % b)

NaN == <<0, 0>>
IsNaN(x) == x[2] = 0

Norm(n, d) ==
    LET g == GCD(Abs(n), Abs(d))
        s == IF d < 0 THEN -1 ELSE 1
    IN  <<(s * n) \div g, (s * d) \div g>>

R(n) == <<n, 1>>
Zero == R(0)
One == R(1)

RAdd(x, y) == IF IsNaN(x) \/ IsNaN(y) THEN NaN
              ELSE Norm(x[1] * y[2] + y[1] * x[2], x[2] * y[2])
RSub(x, y) == IF IsNaN(x) \/ IsNaN(y) THEN NaN
              ELSE Norm(x[1] * y[2] - y[1] * x[2], x[2] * y[2])
RMul(x, y) == IF IsNaN(x) \/ IsNaN(y) THEN NaN
              ELSE Norm(x[1] * y[1], x[2] * y[2])
RDiv(x, y) == IF IsNaN(x) \/ IsNaN(y) \/ y[1] = 0 THEN NaN
              ELSE Norm(x[1] * y[2], x[2] * y[1])
RPos(x) == ~IsNaN(x) /\ x[1] > 0
RNonNeg(x) == ~IsNaN(x) /\ x[1] >= 0
RLe(x, y) == ~IsNaN(x) /\ ~IsNaN(y) /\ x[1] * y[2] <= y[1] * x[2]
RAbs(x) == <<Abs(x[1]), x[2]>>

RECURSIVE VSumTo(_, _)
VSumTo(v, k) == IF k = 0 THEN Zero ELSE RAdd(VSumTo(v, k - 1), v[k])
VSum(v) == VSumTo(v, Len(v))                              \* np.sum

\* np.prod(v[lo - 1 : hi]), the product of v[lo] .. v[hi]
RECURSIVE VProdRange(_, _, _)
VProdRange(v, lo, hi) ==
    IF hi < lo THEN One ELSE RMul(VProdRange(v, lo, hi - 1), v[hi])
VProd(v) == VProdRange(v, 1, Len(v))                      \* np.prod

\* the array with the entries f[1] .. f[n], built entry by entry
RECURSIVE VecTo(_, _)
VecTo(f, n) == IF n = 0 THEN <<>> ELSE Append(VecTo(f, n - 1), f[n])
Vec(f) == VecTo(f, Cardinality(DOMAIN f))

Zeros(n) == Vec([k \in 1..n |-> Zero])                    \* np.zeros
Ones(n) == Vec([k \in 1..n |-> One])                      \* np.ones
VAdd(v, w) == Vec([k \in 1..Len(v) |-> RAdd(v[k], w[k])])
VScale(c, v) == Vec([k \in 1..Len(v) |-> RMul(c, v[k])])
RECURSIVE DotTo(_, _, _)
DotTo(v, w, k) == IF k = 0 THEN Zero
                  ELSE RAdd(DotTo(v, w, k - 1), RMul(v[k], w[k]))
Dot(v, w) == DotTo(v, w, Len(v))                          \* v @ w

IsDistribution(v) ==
    /\ \A k \in 1..Len(v) : RNonNeg(v[k])
    /\ VSum(v) = One

---------------------------------------------------------------------------
(* RegretMatchingPlayer.regret_matching_strategy                           *)
(* The call is modelled with the array it was handed: np.where allocates   *)
(* the array that the in-place division then works on, so the caller's     *)
(* array is the one returned in field regrets.                             *)

regret_matching_strategy_unguarded(regrets) ==
    LET action_probs == Vec([k \in 1..Len(regrets) |->
                            IF RPos(regrets[k]) THEN regrets[k] ELSE Zero])
    IN  [regrets |-> regrets,
         action_probs |-> Vec([k \in 1..Len(regrets) |->
                              RDiv(action_probs[k], VSum(action_probs))])]

regret_matching_strategy_unclipped(regrets) ==
    IF RPos(VSum(regrets))
    THEN [regrets |-> regrets,
          action_probs |-> Vec([k \in 1..Len(regrets) |->
                               RDiv(regrets[k], VSum(regrets))])]
    ELSE [regrets |-> regrets,
          action_probs |-> Vec([k \in 1..Len(regrets) |->
                               RDiv(One, R(Len(regrets)))])]

regret_matching_strategy_inplace(regrets) ==
    LET action_probs == Vec([k \in 1..Len(regrets) |->
                            IF RPos(regrets[k]) THEN regrets[k] ELSE Zero])
        normalized == Vec([k \in 1..Len(regrets) |->
                          RDiv(action_probs[k], VSum(action_probs))])
    IN  IF RPos(VSum(action_probs))
        THEN [regrets |-> normalized, action_probs |-> normalized]
        ELSE [regrets |-> action_probs,
              action_probs |-> Vec([k \in 1..Len(regrets) |->
                                   RDiv(One, R(Len(regrets)))])]

regret_matching_strategy(regrets) ==
    LET action_probs == Vec([k \in 1..Len(regrets) |->
                            IF RPos(regrets[k]) THEN regrets[k] ELSE Zero])
    IN  IF RPos(VSum(action_probs))
        THEN [regrets |-> regrets,
              action_probs |-> Vec([k \in 1..Len(regrets) |->
                                   RDiv(action_probs[k], VSum(action_probs))])]
        ELSE [regrets |-> regrets,
              action_probs |-> Vec([k \in 1..Len(regrets) |->
                                   RDiv(One, R(Len(regrets)))])]

---------------------------------------------------------------------------
(* The concrete games.  A history is a sequence of IntEnum values; in Kuhn *)
(* poker its first element is the chance action (the deal).                *)

Games == {"RPS", "PD", "BAR", "KUHN"}
NormalFormGames == {"RPS", "PD", "BAR"}

n_players(gm) == IF gm = "BAR" THEN 3 ELSE 2
n_actions(gm) == IF gm = "RPS" THEN 3 ELSE 2              \* len(game.actions)
n_chance_actions == 6                     \* len(KUHN_POKER_CHANCE_ACTIONS)
has_chance_player(gm) == gm = "KUHN"
Players(gm) == 0..(n_players(gm) - 1)
Actions(gm) == 0..(n_actions(gm) - 1)

ROCK_PAPER_SCISSOR_ACTIONS == <<"ROCK", "PAPER", "SCISSOR">>
PRISONER_DILEMMA_ACTIONS == <<"SNITCH", "SILENCE">>
BAR_CROWDING_ACTIONS == <<"GO_TO_BAR", "STAY_HOME">>
KUHN_POKER_ACTIONS == <<"PASS", "BET">>
KUHN_POKER_CHANCE_ACTIONS == <<"JQ", "JK", "QK", "QJ", "KJ", "KQ">>
\* chance_action.name[player_id], the name read one character at a time
KUHN_POKER_CHANCE_CARDS ==
    <<(<<"J", "Q">>), (<<"J", "K">>), (<<"Q", "K">>),
      (<<"Q", "J">>), (<<"K", "J">>), (<<"K", "Q">>)>>

action_names(gm) ==
    CASE gm = "RPS" -> ROCK_PAPER_SCISSOR_ACTIONS
      [] gm = "PD" -> PRISONER_DILEMMA_ACTIONS
      [] gm = "BAR" -> BAR_CROWDING_ACTIONS
      [] gm = "KUHN" -> KUHN_POKER_ACTIONS

\* str(action) of a lessVerboseEnum member
action_str(gm, a) == action_names(gm)[a + 1]

\* history[1:]
Tail1(history) == SubSeq(history, 2, Len(history))

\* '-'.join(str(action) for action in history), for a history of player
\* actions
RECURSIVE history_to_str(_, _)
history_to_str(gm, history) ==
    IF Len(history) = 0 THEN ""
    ELSE IF Len(history) = 1 THEN action_str(gm, history[1])
    ELSE history_to_str(gm, SubSeq(history, 1, Len(history) - 1))
             \o "-" \o action_str(gm, history[Len(history)])

KUHN_TERMINAL_NODES_without_last ==
    {"PASS-PASS", "BET-BET", "BET-PASS", "PASS-BET-PASS"}

KUHN_TERMINAL_NODES ==
    {"PASS-PASS", "BET-BET", "BET-PASS", "PASS-BET-PASS", "PASS-BET-BET"}

is_terminal(gm, history) ==
    IF gm = "KUHN"
    THEN history_to_str(gm, Tail1(history)) \in KUHN_TERMINAL_NODES
    ELSE Len(history) = n_players(gm)

\* the index into game.players, or -1 for ValueError("Invalid history")
get_active_player(gm, history) ==
    IF gm = "KUHN"
    THEN (Len(history) - 1) % 2
    ELSE IF Len(history) \in 0..(n_players(gm) - 1) THEN Len(history) ELSE -1

get_winner_below_two(chance_action) == IF chance_action < 2 THEN 1 ELSE 0

get_winner(chance_action) == IF chance_action < 3 THEN 1 ELSE 0

showdown(history) ==
    IF get_winner(history[1]) = 0 THEN <<1, -1>> ELSE <<-1, 1>>

Payoffs(ints) ==
    [err |-> "none", val |-> Vec([k \in 1..Len(ints) |-> R(ints[k])])]
Raise(e) == [err |-> e, val |-> <<>>]

KuhnPoker_get_payoffs(history) ==
    LET h == history_to_str("KUHN", Tail1(history))
        sd == showdown(history)
    IN  IF ~is_terminal("KUHN", history) THEN Raise("AssertionError")
        ELSE CASE h = "PASS-PASS" -> Payoffs(<<1 * sd[1], 1 * sd[2]>>)
               [] h = "BET-BET" -> Payoffs(<<2 * sd[1], 2 * sd[2]>>)
               [] h = "BET-PASS" -> Payoffs(<<1, -1>>)
               [] h = "PASS-BET-PASS" -> Payoffs(<<-1, 1>>)
               [] h = "PASS-BET-BET" -> Payoffs(<<2 * sd[1], 2 * sd[2]>>)
               [] OTHER -> Raise("Exception")

PrisonerDilemma_get_payoffs_silence_pays(history) ==
    LET h == history_to_str("PD", history)
    IN  IF ~is_terminal("PD", history) THEN Raise("AssertionError")
        ELSE CASE h = "SNITCH-SNITCH" -> Payoffs(<<-1, -1>>)
               [] h = "SILENCE-SILENCE" -> Payoffs(<<-2, -2>>)
               [] h = "SILENCE-SNITCH" -> Payoffs(<<0, -3>>)
               [] h = "SNITCH-SILENCE" -> Payoffs(<<-3, 0>>)
               [] OTHER -> Raise("ValueError")

PrisonerDilemma_get_payoffs(history) ==
    LET h == history_to_str("PD", history)
    IN  IF ~is_terminal("PD", history) THEN Raise("AssertionError")
        ELSE CASE h = "SNITCH-SNITCH" -> Payoffs(<<-2, -2>>)
               [] h = "SILENCE-SILENCE" -> Payoffs(<<-1, -1>>)
               [] h = "SILENCE-SNITCH" -> Payoffs(<<-3, 0>>)
               [] h = "SNITCH-SILENCE" -> Payoffs(<<0, -3>>)
               [] OTHER -> Raise("ValueError")

BarCrowding_get_payoffs(history) ==
    LET h == history_to_str("BAR", history)
    IN  IF ~is_terminal("BAR", history) THEN Raise("AssertionError")
        ELSE CASE h = "STAY_HOME-STAY_HOME-STAY_HOME" -> Payoffs(<<1, 1, 1>>)
               [] h = "GO_TO_BAR-STAY_HOME-STAY_HOME" -> Payoffs(<<0, 1, 1>>)
               [] h = "STAY_HOME-GO_TO_BAR-STAY_HOME" -> Payoffs(<<1, 0, 1>>)
               [] h = "STAY_HOME-STAY_HOME-GO_TO_BAR" -> Payoffs(<<1, 1, 0>>)
               [] h = "STAY_HOME-GO_TO_BAR-GO_TO_BAR" -> Payoffs(<<1, 2, 2>>)
               [] h = "GO_TO_BAR-STAY_HOME-GO_TO_BAR" -> Payoffs(<<2, 1, 2>>)
               [] h = "GO_TO_BAR-GO_TO_BAR-STAY_HOME" -> Payoffs(<<2, 2, 1>>)
               [] h = "GO_TO_BAR-GO_TO_BAR-GO_TO_BAR" -> Payoffs(<<-1, -1, -1>>)
               [] OTHER -> Raise("ValueError")

RockPaperScissor_get_payoffs_table(history) ==
    LET h == history_to_str("RPS", history)
    IN  CASE h = "ROCK-PAPER" -> Payoffs(<<-1, 1>>)
          [] h = "ROCK-SCISSOR" -> Payoffs(<<1, -1>>)
          [] h = "PAPER-ROCK" -> Payoffs(<<1, -1>>)
          [] h = "PAPER-SCISSOR" -> Payoffs(<<-1, 1>>)
          [] h = "SCISSOR-ROCK" -> Payoffs(<<-1, 1>>)
          [] h = "SCISSOR-PAPER" -> Payoffs(<<1, -1>>)
          [] OTHER -> Payoffs(<<0, 0>>)

RockPaperScissor_get_payoffs_unasserted(history) ==
    RockPaperScissor_get_payoffs_table(history)

RockPaperScissor_get_payoffs(history) ==
    IF ~is_terminal("RPS", history) THEN Raise("AssertionError")
    ELSE RockPaperScissor_get_payoffs_table(history)

get_payoffs(gm, history) ==
    CASE gm = "RPS" -> RockPaperScissor_get_payoffs(history)
      [] gm = "PD" -> PrisonerDilemma_get_payoffs(history)
      [] gm = "BAR" -> BarCrowding_get_payoffs(history)
      [] gm = "KUHN" -> KuhnPoker_get_payoffs(history)

Digits == <<"0", "1", "2", "3", "4", "5", "6", "7", "8", "9">>

get_card_of_first_player(chance_action, player_id) ==
    KUHN_POKER_CHANCE_CARDS[chance_action + 1][1]

\* chance_action.name[player_id]
get_card(chance_action, player_id) ==
    KUHN_POKER_CHANCE_CARDS[chance_action + 1][player_id + 1]

\* "" stands for the error raised on a history without an infostate
get_infostate(gm, history) ==
    IF gm = "KUHN"
    THEN IF Len(history) = 0 THEN ""
         ELSE get_card(history[1], get_active_player(gm, history))
              \o "-" \o history_to_str(gm, Tail1(history))
    ELSE IF Len(history) \in 0..(n_players(gm) - 1)
         THEN "P" \o Digits[Len(history) + 1]
         ELSE ""

---------------------------------------------------------------------------
(* Parts of the state that a specification does not exercise stay parked *)

RmOff == rm_pc = "off" /\ rm_arg0 = <<>> /\ rm_regrets = <<>> /\ rm_ret = <<>>
GOff == /\ g_pc = "off" /\ g_game = "RPS" /\ g_history = <<>>
        /\ g_terminal = FALSE /\ g_payoffs = Raise("none")
        /\ g_active = <<>> /\ g_infostate = <<>> /\ g_play_log = <<>>
CfrOff == /\ game = "RPS" /\ cum_regrets = <<>> /\ strategy = <<>>
          /\ strategy_sum = <<>> /\ pc = "off" /\ n_iters = 0 /\ i = 0
          /\ utils = <<>> /\ stack = <<>> /\ avg_strats = <<>>
          /\ total_iters = 0 /\ n_calls = 0 /\ chance_log = <<>>
          /\ node_log = <<>> /\ snap = <<>> /\ iter_snap = <<>>
          /\ report_snap = <<>> /\ call_log = <<>> /\ last_call = <<>>
NfOff == /\ nf_game = "RPS" /\ nf_pc = "off" /\ nf_cum_regrets = <<>>
         /\ nf_n_iters = 0 /\ nf_i = 0 /\ nf_freeze_ls = {}
         /\ nf_ep_payoffs = <<>> /\ nf_ep_histories = <<>>
         /\ nf_ep_strategies = <<>> /\ nf_snap = <<>> /\ nf_updated = {}
         /\ nf_games_played = 0 /\ nf_calls = 0 /\ nf_ret = <<>>
         /\ nf_players = <<>> /\ nf_game_snap = <<>> /\ nf_held = <<>>
         /\ nf_played = <<>>
         /\ nf_call_start = 0 /\ nf_avg = <<>>

---------------------------------------------------------------------------
(* The strategy rule applied to a regret vector *)

RegretVals ==
    {R(n) : n \in (-MaxRegret)..MaxRegret} \cup {<<1, 2>>, <<-1, 2>>, <<1, 3>>}
RegretVectors == UNION {[1..n -> RegretVals] : n \in 1..MaxLen}

InitRM ==
    /\ rm_pc = "ready"
    /\ rm_arg0 \in RegretVectors
    /\ rm_regrets = rm_arg0
    /\ rm_ret = <<>>
    /\ GOff /\ CfrOff /\ NfOff

RegretMatchingCall ==
    /\ rm_pc = "ready"
    /\ LET call == regret_matching_strategy(rm_regrets)
       IN  /\ rm_regrets' = call.regrets
           /\ rm_ret' = call.action_probs
    /\ rm_pc' = "done"
    /\ UNCHANGED <<rm_arg0, g_vars, cfr_vars, nf_vars>>

NextRM == RegretMatchingCall
SpecRM == InitRM /\ [][NextRM]_vars

\* max(r, 0)
Clip(x) == IF RPos(x) THEN x ELSE Zero
HasPositive(v) == \E k \in 1..Len(v) : RPos(v[k])

\* C1: for every regret vector the returned vector has the length of the
\* input, has no negative entry and sums to exactly 1, and the input vector
\* is left as it was.
C1_DistributionAndInputKept ==
    rm_pc = "done" =>
        /\ Len(rm_ret) = Len(rm_arg0)
        /\ \A k \in 1..Len(rm_ret) : RNonNeg(rm_ret[k])
        /\ VSum(rm_ret) = One
        /\ rm_regrets = rm_arg0

C1_Witness ==
    /\ rm_pc = "done"
    /\ Len(rm_arg0) = 3
    /\ RPos(rm_arg0[1]) /\ rm_arg0[2] = Zero /\ ~RNonNeg(rm_arg0[3])
    /\ rm_ret # rm_arg0

\* C2: a regret vector without a positive entry yields exactly the uniform
\* distribution 1/n, a finite value (no division by zero happened).
C2_UniformOnNonPositive ==
    (rm_pc = "done" /\ ~HasPositive(rm_arg0)) =>
        \A k \in 1..Len(rm_arg0) :
            /\ ~IsNaN(rm_ret[k])
            /\ rm_ret[k] = <<1, Len(rm_arg0)>>

C2_Witness ==
    /\ rm_pc = "done"
    /\ Len(rm_arg0) = 3
    /\ ~HasPositive(rm_arg0)
    /\ \E k \in 1..3 : rm_arg0[k] # Zero
    /\ rm_ret = <<(<<1, 3>>), (<<1, 3>>), (<<1, 3>>)>>

\* C3: with at least one positive regret, p[i] times the sum of the positive
\* regrets equals max(r[i], 0), so p[i] = max(r[i],0) / sum_j max(r[j],0),
\* and an action with non-positive regret has probability exactly 0.
C3_ProportionalToPositivePart ==
    (rm_pc = "done" /\ HasPositive(rm_arg0)) =>
        LET total == VSum(Vec([k \in 1..Len(rm_arg0) |-> Clip(rm_arg0[k])]))
        IN  \A k \in 1..Len(rm_arg0) :
                /\ RMul(rm_ret[k], total) = Clip(rm_arg0[k])
                /\ ~RPos(rm_arg0[k]) => rm_ret[k] = Zero

C3_Witness ==
    /\ rm_pc = "done"
    /\ rm_arg0 = <<R(1), R(-2), R(2)>>
    /\ rm_ret = <<(<<1, 3>>), Zero, (<<2, 3>>)>>

---------------------------------------------------------------------------
(* A game queried on its own with an arbitrary history *)

HistoriesOf(gm) ==
    UNION {[1..n -> 0..(n_actions(gm) - 1)] : n \in 0..MaxHist}
KuhnHistories ==
    {<<>>} \cup
    {<<c>> \o h : c \in 0..(n_chance_actions - 1),
                  h \in UNION {[1..n -> 0..1] : n \in 0..(MaxHist - 1)}}

InitGame ==
    /\ g_pc = "ready"
    /\ g_game \in Games
    /\ g_history \in (IF g_game = "KUHN" THEN KuhnHistories
                      ELSE HistoriesOf(g_game))
    /\ g_terminal = FALSE
    /\ g_payoffs = Raise("none")
    /\ g_active = <<>> /\ g_infostate = <<>> /\ g_play_log = <<>>
    /\ RmOff /\ CfrOff /\ NfOff

QueryPayoffs ==
    /\ g_pc = "ready"
    /\ g_terminal' = is_terminal(g_game, g_history)
    /\ g_payoffs' = get_payoffs(g_game, g_history)
    /\ g_pc' = "done"
    /\ UNCHANGED <<g_game, g_history, g_active, g_infostate, g_play_log,
                   rm_vars, cfr_vars, nf_vars>>

\* game.get_active_player(history)
QueryActivePlayer ==
    /\ g_pc = "ready"
    /\ g_active' = <<get_active_player(g_game, g_history)>>
    /\ g_pc' = "active_player"
    /\ UNCHANGED <<g_game, g_history, g_terminal, g_payoffs, g_infostate,
                   g_play_log, rm_vars, cfr_vars, nf_vars>>

\* game.get_infostate(history)
QueryInfostate ==
    /\ g_pc = "ready"
    /\ g_infostate' = <<get_infostate(g_game, g_history)>>
    /\ g_pc' = "infostate"
    /\ UNCHANGED <<g_game, g_history, g_terminal, g_payoffs, g_active,
                   g_play_log, rm_vars, cfr_vars, nf_vars>>

\* what active_player.act(infostate) can return to play(): an index of the
\* player's strategy vector, which a player built for more actions than the
\* game has makes one longer than the game's action set
ActReturns(gm) == 0..n_actions(gm)

\* play(), line 121: history = []
PlayBegin ==
    /\ g_pc = "ready"
    /\ g_history' = <<>>
    /\ g_play_log' = <<>>
    /\ g_pc' = "play"
    /\ UNCHANGED <<g_game, g_terminal, g_payoffs, g_active, g_infostate,
                   rm_vars, cfr_vars, nf_vars>>

\* play(), lines 122-127: one pass of the while loop; an exception raised by
\* get_active_player, get_infostate or the conversion of the index to the
\* action enum leaves play()
PlayStep ==
    /\ g_pc = "play"
    /\ ~is_terminal(g_game, g_history)
    /\ LET active_player == get_active_player(g_game, g_history)
           infostate == get_infostate(g_game, g_history)
       IN  IF active_player = -1 \/ infostate = ""
           THEN /\ g_pc' = "play_error"
                /\ UNCHANGED <<g_history, g_play_log>>
           ELSE \E index \in ActReturns(g_game) :
                   /\ g_play_log' = Append(g_play_log,
                          [player |-> active_player, infostate |-> infostate,
                           index |-> index])
                   /\ IF index \in Actions(g_game)
                      THEN g_history' = Append(g_history, index)
                               /\ g_pc' = "play"
                      ELSE g_history' = g_history /\ g_pc' = "play_error"
    /\ UNCHANGED <<g_game, g_terminal, g_payoffs, g_active, g_infostate,
                   rm_vars, cfr_vars, nf_vars>>

\* play(), line 128: return history, self.get_payoffs(history)
PlayReturn ==
    /\ g_pc = "play"
    /\ is_terminal(g_game, g_history)
    /\ g_terminal' = TRUE
    /\ g_payoffs' = get_payoffs(g_game, g_history)
    /\ g_pc' = "played"
    /\ UNCHANGED <<g_game, g_history, g_active, g_infostate, g_play_log,
                   rm_vars, cfr_vars, nf_vars>>

NextGame ==
    \/ QueryPayoffs
    \/ QueryActivePlayer
    \/ QueryInfostate
    \/ PlayBegin
    \/ PlayStep
    \/ PlayReturn
SpecGame == InitGame /\ [][NextGame]_vars

\* C10: on a terminal history get_payoffs returns a vector with exactly
\* n_players entries; on a non-terminal history it fails with an assertion
\* error and returns nothing.
C10_PayoffsOnlyAtTerminal ==
    g_pc = "done" =>
        IF g_terminal
        THEN g_payoffs.err = "none" /\ Len(g_payoffs.val) = n_players(g_game)
        ELSE g_payoffs.err = "AssertionError" /\ g_payoffs.val = <<>>

C10_Witness ==
    /\ g_pc = "done"
    /\ g_game = "KUHN"
    /\ g_history = <<5, 0, 1, 1>>
    /\ g_terminal
    /\ g_payoffs.val = <<R(2), R(-2)>>

C10_WitnessNonTerminal ==
    /\ g_pc = "done"
    /\ g_game = "BAR"
    /\ Len(g_history) = 2
    /\ g_payoffs.err = "AssertionError"

\* the history has reached or passed a terminal node of the game
AtOrBeyondTerminal(gm, history) ==
    \E n \in 0..Len(history) : is_terminal(gm, SubSeq(history, 1, n))

\* the history is not one of the game's decision points
NotADecisionPoint(gm, history) ==
    IF gm = "KUHN"
    THEN Len(history) = 0 \/ AtOrBeyondTerminal(gm, history)
    ELSE Len(history) \notin 0..(n_players(gm) - 1)

\* C11: get_active_player fails with the invalid-history error exactly on
\* the histories that are not decision points of the game (normal form: a
\* length outside 0..n_players-1; Kuhn poker: the empty history and any
\* history at or beyond a terminal node), and otherwise names a player.
C11_ActivePlayerRejectsInvalidHistory ==
    g_pc = "active_player" =>
        IF NotADecisionPoint(g_game, g_history)
        THEN g_active = <<-1>>
        ELSE g_active[1] \in 0..(n_players(g_game) - 1)

\* the Kuhn poker histories at which a player decides: a deal followed by
\* a non-terminal action sequence
KuhnDecisionHistories ==
    {h \in KuhnHistories : Len(h) > 0 /\ ~AtOrBeyondTerminal("KUHN", h)}

\* the card the deal gives the player who decides at history h
ActiveCard(h) == KUHN_POKER_CHANCE_CARDS[h[1] + 1][((Len(h) - 1) % 2) + 1]

\* C16: in Kuhn poker the decision histories have exactly 12 infostates, 6
\* per player, and the infostate of a decision history is shared by exactly
\* 2 decision histories: those with the same action sequence and the same
\* card for the active player (so differing only in the opponent's card).
C16_KuhnInfostates ==
    (g_pc = "infostate" /\ g_game = "KUHN"
        /\ g_history \in KuhnDecisionHistories) =>
        /\ g_infostate # <<"">>
        /\ \A h \in KuhnDecisionHistories :
               get_infostate("KUHN", h) = g_infostate[1]
                   <=> (/\ Tail1(h) = Tail1(g_history)
                        /\ ActiveCard(h) = ActiveCard(g_history))
        /\ Cardinality({h \in KuhnDecisionHistories :
                           get_infostate("KUHN", h) = g_infostate[1]}) = 2
        /\ Cardinality({get_infostate("KUHN", h) :
                           h \in KuhnDecisionHistories}) = 12
        /\ \A p \in Players("KUHN") :
               Cardinality({get_infostate("KUHN", h) :
                   h \in {k \in KuhnDecisionHistories :
                              get_active_player("KUHN", k) = p}}) = 6

C16_Witness ==
    /\ g_pc = "infostate"
    /\ g_game = "KUHN"
    /\ g_history = <<2, 0, 1>>
    /\ g_infostate = <<"Q-PASS-BET">>
    /\ get_infostate("KUHN", <<3, 0, 1>>) = "Q-PASS-BET"

\* J < Q < K
CardRank(card) == CASE card = "J" -> 1 [] card = "Q" -> 2 [] card = "K" -> 3

\* the payoffs when the pot of the given stake goes to the higher card
ToHigherCard(deal, stake) ==
    IF CardRank(KUHN_POKER_CHANCE_CARDS[deal + 1][1])
           > CardRank(KUHN_POKER_CHANCE_CARDS[deal + 1][2])
    THEN <<R(stake), R(-stake)>> ELSE <<R(-stake), R(stake)>>

\* C17: for every deal and each of the 5 terminal action sequences of Kuhn
\* poker the payoffs sum to zero; PASS-PASS pays 1 and BET-BET and
\* PASS-BET-BET pay 2 to the holder of the higher card, BET-PASS pays
\* [1, -1] and PASS-BET-PASS pays [-1, 1] whatever the cards.
C17_KuhnPayoffsFollowRules ==
    (g_pc = "done" /\ g_game = "KUHN" /\ g_terminal) =>
        LET h == history_to_str("KUHN", Tail1(g_history))
        IN  /\ g_payoffs.err = "none"
            /\ RAdd(g_payoffs.val[1], g_payoffs.val[2]) = Zero
            /\ h \in KUHN_TERMINAL_NODES
            /\ h = "PASS-PASS" =>
                   g_payoffs.val = ToHigherCard(g_history[1], 1)
            /\ h \in {"BET-BET", "PASS-BET-BET"} =>
                   g_payoffs.val = ToHigherCard(g_history[1], 2)
            /\ h = "BET-PASS" => g_payoffs.val = <<R(1), R(-1)>>
            /\ h = "PASS-BET-PASS" => g_payoffs.val = <<R(-1), R(1)>>

C17_Witness ==
    /\ g_pc = "done"
    /\ g_game = "KUHN"
    /\ g_history = <<2, 0, 1, 1>>
    /\ g_terminal
    /\ g_payoffs.val = <<R(-2), R(2)>>

\* C12: play() fails only when a player's act returns an index outside the
\* action set; otherwise it returns a terminal history with its payoffs,
\* every action chosen by the active player at the infostate of the history
\* so far, and in a normal-form game the history has n_players actions, the
\* k-th chosen by player k at infostate "Pk".
C12_PlayCompletes ==
    /\ g_pc = "play_error" =>
           /\ Len(g_play_log) > 0
           /\ g_play_log[Len(g_play_log)].index \notin Actions(g_game)
    /\ g_pc = "played" =>
           /\ is_terminal(g_game, g_history)
           /\ g_payoffs = get_payoffs(g_game, g_history)
           /\ g_payoffs.err = "none"
           /\ Len(g_play_log) = Len(g_history)
           /\ \A k \in 1..Len(g_history) :
                  /\ g_play_log[k].index = g_history[k]
                  /\ g_play_log[k].player =
                         get_active_player(g_game, SubSeq(g_history, 1, k - 1))
                  /\ g_play_log[k].infostate =
                         get_infostate(g_game, SubSeq(g_history, 1, k - 1))
           /\ g_game \in NormalFormGames =>
                  /\ Len(g_history) = n_players(g_game)
                  /\ \A k \in 1..Len(g_history) :
                         /\ g_play_log[k].player = k - 1
                         /\ g_play_log[k].infostate = "P" \o Digits[k]

---------------------------------------------------------------------------
(* CounterFactualRegretMinimizerPlayer: three dicts keyed by infostate.    *)
(* T stands for the tables of all players, T.cum_regrets[player_id] etc.   *)

EmptyTable == [x \in {} |-> <<>>]

\* CounterFactualRegretMinimizerPlayer.__init__ for every player
\* the same value for each of the player ids 0 .. n - 1
RECURSIVE ForEachPlayer(_, _)
ForEachPlayer(n, value) ==
    IF n = 1 THEN 0 :> value
    ELSE ((n - 1) :> value) @@ ForEachPlayer(n - 1, value)

fresh_players(gm) ==
    [cum_regrets |-> ForEachPlayer(n_players(gm), EmptyTable),
     strategy |-> ForEachPlayer(n_players(gm), EmptyTable),
     strategy_sum |-> ForEachPlayer(n_players(gm), EmptyTable)]

\* d[key] = value
DictSet(d, key, value) == (key :> value) @@ d

\* if key not in d: d[key] = np.zeros(n)
DictSetDefault(d, key, n) ==
    IF key \in DOMAIN d THEN d ELSE DictSet(d, key, Zeros(n))

RECURSIVE update_strategy_of_keys(_, _, _)
update_strategy_of_keys(T, p, keys) ==
    IF keys = {} THEN T
    ELSE LET key == CHOOSE k \in keys : TRUE
         IN  update_strategy_of_keys(
                 [T EXCEPT !.strategy[p][key] =
                     regret_matching_strategy(T.cum_regrets[p][key])
                         .action_probs],
                 p, keys \ {key})
update_strategy_all_infostates(gm, T, p, history) ==
    update_strategy_of_keys(T, p, DOMAIN T.strategy[p])

\* CounterFactualRegretMinimizerPlayer.update_strategy of player p
update_strategy(gm, T, p, history) ==
    LET infostate == get_infostate(gm, history)
        call == regret_matching_strategy(T.cum_regrets[p][infostate])
    IN  [T EXCEPT !.cum_regrets[p] = DictSet(@, infostate, call.regrets),
                  !.strategy[p] = DictSet(@, infostate, call.action_probs)]

\* CounterFactualRegretMinimizerPlayer.get_avg_strategies of player p: the
\* dict it returns and strategy_sum as the calls leave it
get_avg_strategies(T, p) ==
    [avg_strats |-> [infostate \in DOMAIN T.strategy_sum[p] |->
        regret_matching_strategy(T.strategy_sum[p][infostate]).action_probs],
     strategy_sum |-> [infostate \in DOMAIN T.strategy_sum[p] |->
        regret_matching_strategy(T.strategy_sum[p][infostate]).regrets]]

---------------------------------------------------------------------------
(* counterfactualRegretMinimizerTrainer.cfr, cut at its recursive calls *)

\* lines 115-125: the lazy allocation on entering a non-terminal node
cfr_allocate(gm, T, history) ==
    LET p == get_active_player(gm, history)
        infostate == get_infostate(gm, history)
    IN  [T EXCEPT
           !.cum_regrets[p] = DictSetDefault(@, infostate, n_actions(gm)),
           !.strategy[p] = DictSetDefault(@, infostate, n_actions(gm))]

\* new_reach_probs = reach_probs.copy();
\* new_reach_probs[active_player_id] *= cur_policy[int(action)]
RECURSIVE PolicyProductTo(_, _)
PolicyProductTo(cur_policy, a) ==
    IF a < 0 THEN One
    ELSE RMul(PolicyProductTo(cur_policy, a - 1), cur_policy[a + 1])
new_reach_probs_without_copy(reach_probs, p, cur_policy, a) ==
    [reach_probs EXCEPT ![p + 1] = RMul(@, PolicyProductTo(cur_policy, a))]

new_reach_probs(reach_probs, p, cur_policy, a) ==
    [reach_probs EXCEPT ![p + 1] = RMul(@, cur_policy[a + 1])]

\* counterfactual_values[:, action.value] = <returned utilities>
SetColumn(cf, a, util) ==
    Vec([q \in 1..Len(cf) |-> [cf[q] EXCEPT ![a + 1] = util[q]]])

\* np.prod(reach_probs[:p]) * np.prod(reach_probs[p + 1:])
discount_excluding_nobody(reach_probs, p) == VProd(reach_probs)

discount_of(reach_probs, p) ==
    RMul(VProdRange(reach_probs, 1, p),
         VProdRange(reach_probs, p + 2, Len(reach_probs)))

\* what is added to strategy_sum[infostate]
strategy_sum_increment_of_regrets(reach_probs, p, cur_policy, regrets) ==
    regrets

strategy_sum_increment_discounted(reach_probs, p, cur_policy, regrets) ==
    VScale(discount_of(reach_probs, p), cur_policy)

strategy_sum_increment(reach_probs, p, cur_policy, regrets) ==
    VScale(reach_probs[p + 1], cur_policy)

cfr_update_without_strategy_sum(gm, T, history, reach_probs, cur_policy, counterfactual_values) ==
    LET p == get_active_player(gm, history)
        infostate == get_infostate(gm, history)
        node_utils == Vec([q \in 1..n_players(gm) |->
                          Dot(cur_policy, counterfactual_values[q])])
        discount == discount_of(reach_probs, p)
        regrets == Vec([k \in 1..n_actions(gm) |->
                       RMul(RSub(counterfactual_values[p + 1][k],
                                 node_utils[p + 1]), discount)])
        T1 == [T EXCEPT !.cum_regrets[p][infostate] = VAdd(@, regrets)]
        T2 == update_strategy(gm, T1, p, history)
    IN  [T |-> T2, node_utils |-> node_utils]

\* lines 138-158: everything after the loop over the actions
cfr_update(gm, T, history, reach_probs, cur_policy, counterfactual_values) ==
    LET p == get_active_player(gm, history)
        infostate == get_infostate(gm, history)
        node_utils == Vec([q \in 1..n_players(gm) |->
                          Dot(cur_policy, counterfactual_values[q])])
        discount == discount_of(reach_probs, p)
        regrets == Vec([k \in 1..n_actions(gm) |->
                       RMul(RSub(counterfactual_values[p + 1][k],
                                 node_utils[p + 1]), discount)])
        T1 == [T EXCEPT !.cum_regrets[p][infostate] = VAdd(@, regrets)]
        T2 == update_strategy(gm, T1, p, history)
        T3 == [T2 EXCEPT
                 !.strategy_sum[p] = DictSetDefault(@, infostate, n_actions(gm))]
        T4 == [T3 EXCEPT !.strategy_sum[p][infostate] =
                 VAdd(@, strategy_sum_increment(reach_probs, p, cur_policy,
                                                regrets))]
    IN  [T |-> T4, node_utils |-> node_utils]

\* cur_policy = active_player.strategy[infostate]
policy_at(gm, T, history) ==
    T.strategy[get_active_player(gm, history)][get_infostate(gm, history)]

\* the element of a one-element set; {e(x) : x \in {v}} computes v once and
\* then e from it
Only(S) == CHOOSE x \in S : TRUE

\* the whole recursive call, as one function of its arguments: cfr is the
\* call, cfr_node the call at a decision node once its entries exist,
\* cfr_actions the loop over the actions from action a on, cfr_returned the
\* rest of that loop once the call for action a has returned child
RECURSIVE cfr(_, _, _, _)
RECURSIVE cfr_node(_, _, _, _, _)
RECURSIVE cfr_actions(_, _, _, _, _, _, _)
RECURSIVE cfr_returned(_, _, _, _, _, _, _)
cfr(gm, T, history, reach_probs) ==
    IF is_terminal(gm, history)
    THEN [T |-> T, node_utils |-> get_payoffs(gm, history).val]
    ELSE Only({cfr_node(gm, T1, history, reach_probs,
                        policy_at(gm, T1, history)) :
                   T1 \in {cfr_allocate(gm, T, history)}})
cfr_node(gm, T, history, reach_probs, cur_policy) ==
    cfr_actions(gm, T, history, reach_probs, cur_policy, 0,
                Vec([q \in 1..n_players(gm) |-> Zeros(n_actions(gm))]))
cfr_actions(gm, T, history, reach_probs, cur_policy, a, cf) ==
    IF a = n_actions(gm)
    THEN cfr_update(gm, T, history, reach_probs, cur_policy, cf)
    ELSE Only({cfr_returned(gm, history, reach_probs, cur_policy, a, cf,
                            child) :
                   child \in {cfr(gm, T, Append(history, a),
                                  new_reach_probs(reach_probs,
                                      get_active_player(gm, history),
                                      cur_policy, a))}})
cfr_returned(gm, history, reach_probs, cur_policy, a, cf, child) ==
    Only({cfr_actions(gm, child.T, history, reach_probs, cur_policy, a + 1,
                      cf1) :
              cf1 \in {SetColumn(cf, a, child.node_utils)}})

\* the initial history of an iteration whose sampled chance action is c
initial_history(gm, c) == IF has_chance_player(gm) THEN <<c>> ELSE <<>>

\* the tables after one uninterrupted run of train over the given chance
\* actions, one per iteration, from freshly created players
RECURSIVE uninterrupted_run(_, _)
uninterrupted_run(gm, chances) ==
    IF Len(chances) = 0 THEN fresh_players(gm)
    ELSE Only({cfr(gm, T, initial_history(gm, chances[Len(chances)]),
                   Ones(n_players(gm))).T :
                   T \in {uninterrupted_run(gm,
                              SubSeq(chances, 1, Len(chances) - 1))}})

\* the loop of train over the given chance actions, one per iteration, from
\* the tables T: the tables and the accumulated utils it ends with
RECURSIVE train_run(_, _, _)
train_run(gm, T, chances) ==
    IF Len(chances) = 0 THEN [T |-> T, utils |-> Zeros(n_players(gm))]
    ELSE Only({Only({[T |-> call.T,
                      utils |-> VAdd(before.utils, call.node_utils)] :
                  call \in {cfr(gm, before.T,
                                initial_history(gm, chances[Len(chances)]),
                                Ones(n_players(gm)))}}) :
              before \in {train_run(gm, T,
                              SubSeq(chances, 1, Len(chances) - 1))}})

\* the decision nodes of the game tree from history on
RECURSIVE Subtree(_, _)
Subtree(gm, history) ==
    IF is_terminal(gm, history) THEN {}
    ELSE {history} \cup
         UNION {Subtree(gm, Append(history, a)) : a \in Actions(gm)}

---------------------------------------------------------------------------
(* counterfactualRegretMinimizerTrainer.train and the call stack of cfr *)

MaxCalls == 2        \* train calls made on one trainer

Tables ==
    [cum_regrets |-> cum_regrets, strategy |-> strategy,
     strategy_sum |-> strategy_sum]

SetTables(T) ==
    /\ cum_regrets' = T.cum_regrets
    /\ strategy' = T.strategy
    /\ strategy_sum' = T.strategy_sum

\* the values np.random.choice can give chance_action(); a game without a
\* chance player samples nothing, logged as 0
ChanceChoices(gm) ==
    IF has_chance_player(gm) THEN 0..(n_chance_actions - 1) ELSE {0}

\* for i in range(self.n_iters): is there a next i
range_has_next_inclusive(k, n) == k <= n

range_has_next(k, n) == k < n

\* train starts from the players the trainer was constructed with
players_at_train_recreated(gm, T) == fresh_players(gm)

players_at_train(gm, T) == T

\* the frame of a cfr call; entry_regrets keeps cum_regrets[infostate] of
\* the active player as it was when the call reached its loop
Frame(history, reach_probs) ==
    [history |-> history, reach_probs |-> reach_probs, status |-> "enter",
     cur_policy |-> <<>>, counterfactual_values |-> <<>>, action |-> 0,
     entry_regrets |-> <<>>]

NoCall == [kind |-> "none"]

InitCFR ==
    /\ game \in Games
    /\ cum_regrets = fresh_players(game).cum_regrets
    /\ strategy = fresh_players(game).strategy
    /\ strategy_sum = fresh_players(game).strategy_sum
    /\ pc = "idle"
    /\ n_iters = 0 /\ i = 0
    /\ utils = Zeros(n_players(game))
    /\ stack = <<>>
    /\ avg_strats = [p \in Players(game) |-> EmptyTable]
    /\ total_iters = 0 /\ n_calls = 0
    /\ chance_log = <<>> /\ node_log = <<>>
    /\ snap = fresh_players(game)
    /\ iter_snap = fresh_players(game)
    /\ report_snap = fresh_players(game).strategy_sum
    /\ call_log = <<>>
    /\ last_call = NoCall
    /\ RmOff /\ GOff /\ NfOff

\* train(), up to the loop: lines 168-176
TrainBegin ==
    /\ pc = "idle"
    /\ n_calls < MaxCalls
    /\ \E n \in 0..(MaxIters - total_iters) : n_iters' = n
    /\ i' = 0
    /\ utils' = Zeros(n_players(game))
    /\ SetTables(players_at_train(game, Tables))
    /\ snap' = players_at_train(game, Tables)
    /\ pc' = "loop"
    /\ last_call' = NoCall
    /\ UNCHANGED <<game, stack, avg_strats, total_iters, n_calls, chance_log,
                   node_log, iter_snap, report_snap, call_log, rm_vars, g_vars,
                   nf_vars>>

\* one pass of the loop up to the call of cfr: lines 177-182
TrainIterate ==
    /\ pc = "loop"
    /\ range_has_next(i, n_iters)
    /\ \E c \in ChanceChoices(game) :
          /\ stack' = <<Frame(initial_history(game, c), Ones(n_players(game)))>>
          /\ chance_log' = Append(chance_log, c)
    /\ node_log' = <<>>
    /\ call_log' = <<>>
    /\ last_call' = NoCall
    /\ iter_snap' = Tables
    /\ pc' = "cfr"
    /\ UNCHANGED <<game, cum_regrets, strategy, strategy_sum, n_iters, i,
                   utils, avg_strats, total_iters, n_calls, snap, report_snap,
                   rm_vars, g_vars, nf_vars>>

Return_overwriting_utils(node_utils) ==
    IF Len(stack) = 1
    THEN /\ stack' = <<>>
         /\ utils' = node_utils
         /\ i' = i + 1
         /\ total_iters' = total_iters + 1
         /\ pc' = "loop"
    ELSE LET caller == stack[Len(stack) - 1]
         IN  /\ stack' = [SubSeq(stack, 1, Len(stack) - 1)
                            EXCEPT ![Len(stack) - 1] =
                              [caller EXCEPT
                                 !.counterfactual_values =
                                    SetColumn(@, caller.action, node_utils),
                                 !.action = @ + 1]]
             /\ UNCHANGED <<utils, i, total_iters, pc>>

\* the innermost call returns node_utils: to the cfr call that made it
\* (line 135) or to train (line 182: utils += ...)
Return(node_utils) ==
    IF Len(stack) = 1
    THEN /\ stack' = <<>>
         /\ utils' = VAdd(utils, node_utils)
         /\ i' = i + 1
         /\ total_iters' = total_iters + 1
         /\ pc' = "loop"
    ELSE LET caller == stack[Len(stack) - 1]
         IN  /\ stack' = [SubSeq(stack, 1, Len(stack) - 1)
                            EXCEPT ![Len(stack) - 1] =
                              [caller EXCEPT
                                 !.counterfactual_values =
                                    SetColumn(@, caller.action, node_utils),
                                 !.action = @ + 1]]
             /\ UNCHANGED <<utils, i, total_iters, pc>>

Top == stack[Len(stack)]

CfrTerminal_zero_payoffs ==
    /\ pc = "cfr"
    /\ Top.status = "enter"
    /\ is_terminal(game, Top.history)
    /\ Return(Zeros(n_players(game)))
    /\ call_log' = Append(call_log,
          [kind |-> "terminal", history |-> Top.history, player |-> -1,
           infostate |-> ""])
    /\ last_call' = [kind |-> "terminal", frame |-> Top, before |-> Tables,
                     depth |-> Len(stack), nodes |-> Len(node_log)]
    /\ UNCHANGED <<game, cum_regrets, strategy, strategy_sum, n_iters,
                   avg_strats, n_calls, chance_log, node_log, snap, iter_snap,
                   report_snap, rm_vars, g_vars, nf_vars>>

\* lines 113-114: the base case
CfrTerminal ==
    /\ pc = "cfr"
    /\ Top.status = "enter"
    /\ is_terminal(game, Top.history)
    /\ Return(get_payoffs(game, Top.history).val)
    /\ call_log' = Append(call_log,
          [kind |-> "terminal", history |-> Top.history, player |-> -1,
           infostate |-> ""])
    /\ last_call' = [kind |-> "terminal", frame |-> Top, before |-> Tables,
                     depth |-> Len(stack), nodes |-> Len(node_log)]
    /\ UNCHANGED <<game, cum_regrets, strategy, strategy_sum, n_iters,
                   avg_strats, n_calls, chance_log, node_log, snap, iter_snap,
                   report_snap, rm_vars, g_vars, nf_vars>>

\* lines 115-131: entering a decision node
CfrEnter ==
    /\ pc = "cfr"
    /\ Top.status = "enter"
    /\ ~is_terminal(game, Top.history)
    /\ LET T1 == cfr_allocate(game, Tables, Top.history)
           p == get_active_player(game, Top.history)
           infostate == get_infostate(game, Top.history)
           cur_policy == T1.strategy[p][infostate]
       IN  /\ SetTables(T1)
           /\ stack' = [stack EXCEPT ![Len(stack)] =
                 [@ EXCEPT !.status = "loop",
                           !.cur_policy = cur_policy,
                           !.counterfactual_values =
                               Vec([q \in 1..n_players(game) |->
                                   Zeros(n_actions(game))]),
                           !.action = 0,
                           !.entry_regrets = T1.cum_regrets[p][infostate]]]
           /\ node_log' = Append(node_log,
                 [history |-> Top.history, player |-> p,
                  infostate |-> infostate, cur_policy |-> cur_policy,
                  reach_probs |-> Top.reach_probs])
    /\ last_call' = [kind |-> "enter", frame |-> Top, before |-> Tables,
                     depth |-> Len(stack), nodes |-> Len(node_log)]
    /\ UNCHANGED <<game, pc, n_iters, i, utils, avg_strats, total_iters,
                   n_calls, chance_log, snap, iter_snap, report_snap,
                   call_log, rm_vars, g_vars, nf_vars>>

\* lines 132-136: the recursive call for the next action
CfrRecurse ==
    /\ pc = "cfr"
    /\ Top.status = "loop"
    /\ Top.action < n_actions(game)
    /\ stack' = Append(stack,
          Frame(Append(Top.history, Top.action),
                new_reach_probs(Top.reach_probs,
                                get_active_player(game, Top.history),
                                Top.cur_policy, Top.action)))
    /\ last_call' = NoCall
    /\ UNCHANGED <<game, cum_regrets, strategy, strategy_sum, pc, n_iters, i,
                   utils, avg_strats, total_iters, n_calls, chance_log,
                   node_log, snap, iter_snap, report_snap, call_log, rm_vars,
                   g_vars, nf_vars>>

\* lines 138-166: the update of the node and its return
CfrUpdate ==
    /\ pc = "cfr"
    /\ Top.status = "loop"
    /\ Top.action = n_actions(game)
    /\ \E upd \in {cfr_update(game, Tables, Top.history, Top.reach_probs,
                                Top.cur_policy, Top.counterfactual_values)} :
           /\ SetTables(upd.T)
           /\ Return(upd.node_utils)
           /\ last_call' = [kind |-> "update", frame |-> Top,
                            before |-> Tables, depth |-> Len(stack),
                            nodes |-> Len(node_log),
                            returned |-> upd.node_utils]
    /\ call_log' = Append(call_log,
          [kind |-> "update", history |-> Top.history,
           player |-> get_active_player(game, Top.history),
           infostate |-> get_infostate(game, Top.history)])
    /\ UNCHANGED <<game, n_iters, avg_strats, n_calls, chance_log, node_log,
                   snap, iter_snap, report_snap, rm_vars, g_vars, nf_vars>>

\* lines 184-200: after the loop, the average strategies and the report,
\* which looks up avg_strats[player][info_set] for every info_set of
\* player.cum_regrets
TrainEnd ==
    /\ pc = "loop"
    /\ ~range_has_next(i, n_iters)
    /\ \E avg \in {[p \in Players(game) |-> get_avg_strategies(Tables, p)]} :
           /\ avg_strats' = [p \in Players(game) |-> avg[p].avg_strats]
           /\ strategy_sum' = [p \in Players(game) |-> avg[p].strategy_sum]
    /\ pc' = IF \A p \in Players(game) :
                   DOMAIN cum_regrets[p] \subseteq DOMAIN strategy_sum[p]
             THEN "idle" ELSE "KeyError"
    /\ n_calls' = n_calls + 1
    /\ report_snap' = strategy_sum
    /\ last_call' = NoCall
    /\ UNCHANGED <<game, cum_regrets, strategy, n_iters, i, utils, stack,
                   total_iters, chance_log, node_log, snap, iter_snap,
                   call_log, rm_vars, g_vars, nf_vars>>

NextCFR ==
    \/ TrainBegin
    \/ TrainIterate
    \/ CfrTerminal
    \/ CfrEnter
    \/ CfrRecurse
    \/ CfrUpdate
    \/ TrainEnd

SpecCFR == InitCFR /\ [][NextCFR]_vars

---------------------------------------------------------------------------
(* Properties of CFR training *)

\* C4: within one traversal from the root, any two decision nodes with the
\* same infostate for the same active player are evaluated with the same
\* cur_policy.
C4_SameInfostateSamePolicy ==
    \A j, k \in DOMAIN node_log :
        (/\ node_log[j].player = node_log[k].player
         /\ node_log[j].infostate = node_log[k].infostate)
            => node_log[j].cur_policy = node_log[k].cur_policy

\* the average strategy the spec describes for one strategy_sum vector
IsAverageOf(avg, strat_sum) ==
    /\ Len(avg) = Len(strat_sum)
    /\ IF VSum(strat_sum) = Zero
       THEN \A k \in 1..Len(avg) : avg[k] = <<1, Len(avg)>>
       ELSE \A k \in 1..Len(avg) :
                avg[k] = RDiv(strat_sum[k], VSum(strat_sum))
    /\ IsDistribution(avg)

AvgStrategiesMatch ==
    \A p \in Players(game) :
        /\ DOMAIN avg_strats[p] = DOMAIN strategy_sum[p]
        /\ \A infostate \in DOMAIN strategy_sum[p] :
               IsAverageOf(avg_strats[p][infostate],
                           strategy_sum[p][infostate])

\* C5: once train has computed the average strategies, each player gets exactly
\* one entry per infostate of its strategy_sum, equal to the strategy_sum
\* vector divided by its total (uniform when the vector is all zeros), every
\* entry is a probability distribution, and strategy_sum is not modified.
C5_AvgStrategies ==
    (pc = "idle" /\ n_calls > 0) =>
        (strategy_sum = report_snap /\ AvgStrategiesMatch)

C5_Witness ==
    /\ pc = "idle"
    /\ total_iters >= 2
    /\ \E p \in Players(game) : \E infostate \in DOMAIN strategy_sum[p] :
          /\ strategy_sum[p][infostate][1] # strategy_sum[p][infostate][2]
          /\ avg_strats[p][infostate][1] # avg_strats[p][infostate][2]
          /\ IsAverageOf(avg_strats[p][infostate], strategy_sum[p][infostate])
    /\ \E p \in Players(game) : \E infostate \in DOMAIN strategy_sum[p] :
          /\ VSum(strategy_sum[p][infostate]) = Zero
          /\ avg_strats[p][infostate][1] = <<1, n_actions(game)>>

\* no infostate of table before is missing from table after
KeysKept(before, after) ==
    \A p \in DOMAIN before : DOMAIN before[p] \subseteq DOMAIN after[p]

\* no entry of table after is smaller in absolute value than it was before
MagnitudeGrown(before, after) ==
    \A p \in DOMAIN before : \A infostate \in DOMAIN before[p] :
        infostate \in DOMAIN after[p] =>
            \A k \in 1..Len(before[p][infostate]) :
                RLe(RAbs(before[p][infostate][k]), RAbs(after[p][infostate][k]))

BetweenIterations == pc \in {"loop", "idle"}

\* C8 as claimed: after an iteration no cum_regrets entry and no
\* strategy_sum entry is smaller in absolute value than before it, and no
\* infostate has been removed.
C8_TablesOnlyGrow ==
    BetweenIterations =>
        /\ KeysKept(iter_snap.cum_regrets, cum_regrets)
        /\ KeysKept(iter_snap.strategy_sum, strategy_sum)
        /\ MagnitudeGrown(iter_snap.cum_regrets, cum_regrets)
        /\ MagnitudeGrown(iter_snap.strategy_sum, strategy_sum)

\* C8 as amended: at every point of training no infostate has been removed
\* from cum_regrets, strategy or strategy_sum and no strategy_sum entry is
\* smaller than at the start of the iteration or negative (cum_regrets
\* entries are signed sums whose magnitude may shrink).
C8_StrategySumOnlyGrows ==
    pc \in {"loop", "idle", "cfr"} =>
        /\ KeysKept(iter_snap.cum_regrets, cum_regrets)
        /\ KeysKept(iter_snap.strategy, strategy)
        /\ KeysKept(iter_snap.strategy_sum, strategy_sum)
        /\ MagnitudeGrown(iter_snap.strategy_sum, strategy_sum)
        /\ \A p \in Players(game) : \A infostate \in DOMAIN strategy_sum[p] :
               \A k \in 1..n_actions(game) :
                   RNonNeg(strategy_sum[p][infostate][k])

C8_Witness ==
    /\ pc = "loop"
    /\ total_iters = 3
    /\ \E p \in Players(game) : \E infostate \in DOMAIN iter_snap.cum_regrets[p] :
          \E k \in 1..n_actions(game) :
              /\ ~RLe(RAbs(iter_snap.cum_regrets[p][infostate][k]),
                      RAbs(cum_regrets[p][infostate][k]))
              /\ strategy_sum[p][infostate] # iter_snap.strategy_sum[p][infostate]

\* C9: whenever no iteration is under way, however the iterations so far
\* were split into train calls, every player's cum_regrets and strategy_sum
\* equal those of one uninterrupted run over the same sampled chance actions
\* from freshly created players.
C9_Resumable ==
    (BetweenIterations /\ Len(chance_log) = total_iters) =>
        \A U \in {uninterrupted_run(game, chance_log)} :
            /\ cum_regrets = U.cum_regrets
            /\ strategy_sum = U.strategy_sum

C9_Witness ==
    /\ pc = "idle"
    /\ n_calls = 2
    /\ n_iters >= 1
    /\ total_iters > n_iters
    /\ snap.cum_regrets # fresh_players(game).cum_regrets
    /\ cum_regrets # snap.cum_regrets

\* C18: training samples nothing but the chance action of each iteration:
\* between iterations the tables (cum_regrets, strategy, strategy_sum) and
\* the accumulated utils are those the train loop computes as a function of
\* the tables at the start of the call and the chance actions sampled since
\* (for a game without chance player, of the iteration count alone), and
\* the traversal just finished entered every decision node of the game tree
\* under its initial history exactly once.
C18_DeterministicGivenChance ==
    /\ (BetweenIterations /\ Len(chance_log) = total_iters
           /\ i <= total_iters) =>
           \A U \in {train_run(game, snap,
                         SubSeq(chance_log, total_iters - i + 1,
                                total_iters))} :
               /\ cum_regrets = U.T.cum_regrets
               /\ strategy = U.T.strategy
               /\ strategy_sum = U.T.strategy_sum
               /\ utils = U.utils
    /\ (pc = "loop" /\ i > 0) =>
           /\ {node_log[j].history : j \in DOMAIN node_log} =
                  Subtree(game, initial_history(game, chance_log[total_iters]))
           /\ \A j, k \in DOMAIN node_log :
                  node_log[j].history = node_log[k].history => j = k

C18_Witness ==
    /\ pc = "idle"
    /\ game = "KUHN"
    /\ n_calls = 2
    /\ i = 2
    /\ total_iters = 3
    /\ chance_log[2] # chance_log[3]
    /\ utils[1] # Zero
    /\ Len(node_log) = 4

C18_WitnessWithoutChance ==
    /\ pc = "idle"
    /\ game = "RPS"
    /\ i = 3
    /\ utils # Zeros(2)

\* the active player and the infostate of the cfr call that took the latest
\* step
LastPlayer == get_active_player(game, last_call.frame.history)
LastInfostate == get_infostate(game, last_call.frame.history)

\* the product of the reach probabilities of every player but p
RECURSIVE ProductExceptTo(_, _, _)
ProductExceptTo(reach_probs, p, n) ==
    IF n = 0 THEN One
    ELSE IF n = p + 1 THEN ProductExceptTo(reach_probs, p, n - 1)
    ELSE RMul(ProductExceptTo(reach_probs, p, n - 1), reach_probs[n])
ProductExcept(reach_probs, p) ==
    ProductExceptTo(reach_probs, p, Len(reach_probs))

\* C21: the vector a decision node adds to the active player's
\* cum_regrets[infostate] is, action by action, the active player's
\* counterfactual value of the action minus its node utility, times the
\* product of the reach probabilities of all the other players; the active
\* player's own reach probability is no factor of it
C21_RegretIncrement ==
    last_call.kind = "update" =>
        LET f == last_call.frame
            p == LastPlayer
            values == f.counterfactual_values[p + 1]
            node_utility == Dot(f.cur_policy, values)
            others == ProductExcept(f.reach_probs, p)
        IN  cum_regrets[p][LastInfostate] =
                VAdd(last_call.before.cum_regrets[p][LastInfostate],
                     Vec([k \in 1..n_actions(game) |->
                          RMul(RSub(values[k], node_utility), others)]))

\* a node whose active player reached it with a probability strictly between
\* 0 and 1, beside an opponent who did too, and whose regrets changed
C21_Witness ==
    /\ last_call.kind = "update"
    /\ game = "KUHN"
    /\ last_call.frame.reach_probs[LastPlayer + 1] \notin {Zero, One}
    /\ ProductExcept(last_call.frame.reach_probs, LastPlayer) \notin {Zero, One}
    /\ cum_regrets[LastPlayer][LastInfostate] #
           last_call.before.cum_regrets[LastPlayer][LastInfostate]

\* C22: a decision node adds reach_probs[active player] * cur_policy to the
\* active player's strategy_sum[infostate], cur_policy being the policy the
\* node read on entry and weighted its recursion with, not the strategy its
\* own regret update has just produced, and the weight being the active
\* player's own reach probability, not the opponents'
C22_StrategySumIncrement ==
    last_call.kind = "update" =>
        LET f == last_call.frame
            p == LastPlayer
            entered == node_log[CHOOSE j \in DOMAIN node_log :
                                    node_log[j].history = f.history]
            old == IF LastInfostate \in DOMAIN last_call.before.strategy_sum[p]
                   THEN last_call.before.strategy_sum[p][LastInfostate]
                   ELSE Zeros(n_actions(game))
        IN  /\ f.cur_policy = entered.cur_policy
            /\ strategy_sum[p][LastInfostate] =
                   VAdd(old, VScale(f.reach_probs[p + 1], entered.cur_policy))

\* a node whose update changed its strategy, reached by its active player
\* with another probability than the opponents' product
C22_Witness ==
    /\ last_call.kind = "update"
    /\ strategy[LastPlayer][LastInfostate] # last_call.frame.cur_policy
    /\ last_call.frame.reach_probs[LastPlayer + 1] \notin {Zero, One}
    /\ ProductExcept(last_call.frame.reach_probs, LastPlayer) #
           last_call.frame.reach_probs[LastPlayer + 1]
    /\ strategy_sum[LastPlayer][LastInfostate] #
           VScale(last_call.frame.reach_probs[LastPlayer + 1],
                  strategy[LastPlayer][LastInfostate])

\* C23: the cur_policy a decision node has just read on entry is
\* regret_matching_strategy of the active player's cum_regrets[infostate]
\* of that moment, hence a probability distribution, on the first visit
\* of an infostate the uniform one; and the node utility a decision node
\* returns for a player is the dot product of cur_policy with that
\* player's counterfactual values
C23_PolicyIsRegretMatched ==
    /\ (pc = "cfr" /\ Top.status = "loop" /\ Top.action = 0) =>
           LET p == get_active_player(game, Top.history)
               infostate == get_infostate(game, Top.history)
           IN  /\ Top.cur_policy =
                      regret_matching_strategy(
                          cum_regrets[p][infostate]).action_probs
               /\ IsDistribution(Top.cur_policy)
    /\ last_call.kind = "update" =>
           \A q \in 1..n_players(game) :
               last_call.returned[q] =
                   Dot(last_call.frame.cur_policy,
                       last_call.frame.counterfactual_values[q])

\* the call that made the call of frame k of the stack
Caller(k) == stack[k - 1]

\* C24: the cfr call a decision node makes for action a gets the node's
\* history with a appended and the node's reach vector with the active
\* player's entry multiplied by cur_policy[a]; the node's own history and
\* reach vector are the same before and after each of its calls; every
\* reach probability lies in [0, 1]; and the top-level call of an iteration
\* has the iteration's initial history and reach probabilities all 1
C24_RecursionArguments ==
    /\ pc = "cfr" =>
           /\ stack[1].reach_probs = Ones(n_players(game))
           /\ stack[1].history =
                  initial_history(game, chance_log[Len(chance_log)])
           /\ \A k \in 2..Len(stack) :
                  LET a == Caller(k).action
                      p == get_active_player(game, Caller(k).history)
                  IN  /\ stack[k].history = Caller(k).history \o <<a>>
                      /\ Len(stack[k].reach_probs) = n_players(game)
                      /\ \A q \in 1..n_players(game) :
                             stack[k].reach_probs[q] =
                                 IF q = p + 1
                                 THEN RMul(Caller(k).reach_probs[q],
                                           Caller(k).cur_policy[a + 1])
                                 ELSE Caller(k).reach_probs[q]
           /\ \A k \in 1..Len(stack) : \A q \in 1..n_players(game) :
                  /\ RNonNeg(stack[k].reach_probs[q])
                  /\ RLe(stack[k].reach_probs[q], One)
    /\ (last_call.kind \in {"terminal", "update"} /\ last_call.depth > 1) =>
           LET a == Top.action - 1
               p == get_active_player(game, Top.history)
           IN  /\ Len(stack) = last_call.depth - 1
               /\ last_call.frame.history = Top.history \o <<a>>
               /\ last_call.frame.reach_probs =
                      [Top.reach_probs EXCEPT
                          ![p + 1] = RMul(@, Top.cur_policy[a + 1])]
               /\ \E j \in DOMAIN node_log :
                      /\ node_log[j].history = Top.history
                      /\ node_log[j].reach_probs = Top.reach_probs

\* a call for the second action has returned to a node that both players
\* reached with a probability strictly between 0 and 1
C24_Witness ==
    /\ last_call.kind \in {"terminal", "update"}
    /\ last_call.depth > 2
    /\ Top.action = 2
    /\ \A q \in 1..n_players(game) : Top.reach_probs[q] \notin {Zero, One}
    /\ last_call.frame.reach_probs # Top.reach_probs

\* C25: a cfr call on a terminal history hands get_payoffs(history) to its
\* caller and returns at once: it makes no call of cfr, enters no decision
\* node, and leaves every player's cum_regrets, strategy and strategy_sum
\* as they were, keys included
C25_TerminalReturnsPayoffs ==
    last_call.kind = "terminal" =>
        LET history == last_call.frame.history
            payoffs == get_payoffs(game, history).val
        IN  /\ is_terminal(game, history)
            /\ Tables = last_call.before
            /\ Len(node_log) = last_call.nodes
            /\ \A j \in DOMAIN node_log : node_log[j].history # history
            /\ \A j \in 1..(Len(call_log) - 1) :
                   Len(call_log[j].history) > Len(history) =>
                       SubSeq(call_log[j].history, 1, Len(history)) # history
            /\ Len(stack) = last_call.depth - 1
            /\ Len(stack) > 0
            /\ \A q \in 1..n_players(game) :
                   Top.counterfactual_values[q][Top.action] = payoffs[q]

\* a terminal call has returned payoffs that are not zero to a node whose
\* tables hold entries already
C25_Witness ==
    /\ last_call.kind = "terminal"
    /\ game = "KUHN"
    /\ Len(last_call.frame.history) = 4
    /\ get_payoffs(game, last_call.frame.history).val # Zeros(2)
    /\ \A p \in Players(game) : DOMAIN cum_regrets[p] # {}

\* table (a dict of every player) is as it was in before, apart from player
\* p's entry for infostate
OnlyEntryTouched(before, table, p, infostate) ==
    \A q \in Players(game) :
        /\ DOMAIN table[q] \ (IF q = p THEN {infostate} ELSE {}) =
               DOMAIN before[q] \ (IF q = p THEN {infostate} ELSE {})
        /\ \A key \in DOMAIN before[q] :
               (q # p \/ key # infostate) => table[q][key] = before[q][key]

\* C27: what a cfr call at a decision node does itself, on entry and after
\* its loop, changes cum_regrets, strategy and strategy_sum of the active
\* player at the node's infostate only: every other player's entries and
\* every other infostate's entries stay as they were, keys included; and
\* while a node waits for the calls on its children its regret entry stays
\* as it was on entry, the update coming when all of them have returned
C27_UpdateTouchesOwnEntryOnly ==
    /\ last_call.kind \in {"enter", "update"} =>
           /\ OnlyEntryTouched(last_call.before.cum_regrets, cum_regrets,
                               LastPlayer, LastInfostate)
           /\ OnlyEntryTouched(last_call.before.strategy, strategy,
                               LastPlayer, LastInfostate)
           /\ OnlyEntryTouched(last_call.before.strategy_sum, strategy_sum,
                               LastPlayer, LastInfostate)
    /\ last_call.kind = "enter" =>
           /\ strategy_sum = last_call.before.strategy_sum
           /\ LastInfostate \in DOMAIN last_call.before.cum_regrets[LastPlayer]
                  => cum_regrets = last_call.before.cum_regrets
    /\ last_call.kind = "update" =>
           /\ last_call.frame.action = n_actions(game)
           /\ \A a \in Actions(game) :
                  \E j \in 1..(Len(call_log) - 1) :
                      call_log[j].history = last_call.frame.history \o <<a>>
           /\ last_call.before.cum_regrets[LastPlayer][LastInfostate] =
                  last_call.frame.entry_regrets
    /\ pc = "cfr" =>
           \A k \in 1..Len(stack) :
               stack[k].status = "loop" =>
                   cum_regrets[get_active_player(game, stack[k].history)]
                              [get_infostate(game, stack[k].history)] =
                       stack[k].entry_regrets

\* a node is updated, and changes its regrets, while another infostate of
\* its active player and an infostate of the other player hold regrets that
\* are not zero
C27_Witness ==
    /\ last_call.kind = "update"
    /\ cum_regrets[LastPlayer][LastInfostate] #
           last_call.before.cum_regrets[LastPlayer][LastInfostate]
    /\ \E key \in DOMAIN cum_regrets[LastPlayer] :
           /\ key # LastInfostate
           /\ cum_regrets[LastPlayer][key] # Zeros(n_actions(game))
    /\ \E q \in Players(game) : \E key \in DOMAIN cum_regrets[q] :
           /\ q # LastPlayer
           /\ cum_regrets[q][key] # Zeros(n_actions(game))

\* C28: once a top-level cfr call has returned, and so between the
\* iterations and when train reports, cum_regrets, strategy and strategy_sum
\* of each player have the same infostate keys, every vector stored has one
\* entry per action, and the infostate of every node the call visited is a
\* key of its active player's tables; the report never looks up an infostate
\* that avg_strats lacks
C28_TablesShareKeys ==
    /\ pc # "KeyError"
    /\ BetweenIterations =>
           /\ \A p \in Players(game) :
                  /\ DOMAIN cum_regrets[p] = DOMAIN strategy[p]
                  /\ DOMAIN strategy[p] = DOMAIN strategy_sum[p]
                  /\ \A key \in DOMAIN cum_regrets[p] :
                         /\ Len(cum_regrets[p][key]) = n_actions(game)
                         /\ Len(strategy[p][key]) = n_actions(game)
                         /\ Len(strategy_sum[p][key]) = n_actions(game)
           /\ \A j \in DOMAIN node_log :
                  node_log[j].infostate \in
                      DOMAIN strategy_sum[node_log[j].player]
    /\ (pc = "idle" /\ n_calls > 0) =>
           \A p \in Players(game) : DOMAIN avg_strats[p] = DOMAIN cum_regrets[p]

\* train has reported on Kuhn poker after iterations with two different
\* deals, each player holding the four infostates of two cards
C28_Witness ==
    /\ pc = "idle"
    /\ n_calls > 0
    /\ game = "KUHN"
    /\ \A p \in Players(game) : Cardinality(DOMAIN avg_strats[p]) = 4
    /\ Len(node_log) = 4

\* a step of the running cfr call: CfrTerminal, CfrEnter, CfrRecurse and
\* CfrUpdate each change the stack of calls, and no other action does while
\* pc = "cfr", where the stack is not empty; the first disjunct names a
\* stack that differs from it
CfrStep == pc = "cfr" /\ (stack' = <<>> \/ stack' # stack)

\* the interpreter goes on executing a cfr call it has begun
SpecCFRFair == SpecCFR /\ WF_stack(CfrStep)

\* the cfr call on top of the stack has a step to take
CfrCanStep ==
    /\ Len(stack) > 0
    /\ \/ Top.status = "enter"
       \/ Top.status = "loop" /\ Top.action \in 0..n_actions(game)

\* the cfr calls of the latest iteration that returned, by kind
CallsOfKind(kind) == {j \in DOMAIN call_log : call_log[j].kind = kind}

\* what one finished iteration on Kuhn poker has visited
KuhnIterationVisits ==
    /\ Cardinality(CallsOfKind("update")) = 4
    /\ Len(node_log) = 4
    /\ \A p \in Players(game) :
           Cardinality({j \in CallsOfKind("update") :
                           call_log[j].player = p}) = 2
    /\ Cardinality({call_log[j].infostate : j \in CallsOfKind("update")}) = 4
    /\ \A j, k \in CallsOfKind("update") :
           call_log[j].infostate = call_log[k].infostate => j = k
    /\ Cardinality(CallsOfKind("terminal")) = 5
    /\ Cardinality({call_log[j].history : j \in CallsOfKind("terminal")}) = 5
    /\ \A j \in DOMAIN call_log : Len(call_log[j].history) <= 1 + 3

\* C29: on Kuhn poker every top-level cfr call, begun on the history that
\* holds the chance action alone, returns; no history it explores has more
\* than 3 player actions after the chance action; and one iteration visits
\* exactly 4 decision nodes, two of each player, with four distinct
\* infostates each updated exactly once, and exactly 5 terminal nodes
C29_KuhnIterationTerminates ==
    /\ [](game = "KUHN" =>
              /\ pc = "cfr" =>
                     /\ CfrCanStep
                     /\ Len(stack[1].history) = 1
                     /\ \A k \in 1..Len(stack) :
                            Len(stack[k].history) <= 1 + 3
              /\ (BetweenIterations /\ total_iters > 0) =>
                     KuhnIterationVisits)
    /\ (game = "KUHN" /\ pc = "cfr") ~> (pc = "loop")

\* a second iteration on Kuhn poker has finished
C29_Witness ==
    /\ game = "KUHN"
    /\ pc = "loop"
    /\ i = 2
    /\ Len(call_log) = 9
    /\ call_log[9].kind = "update"
    /\ Len(call_log[9].history) = 1

---------------------------------------------------------------------------
(* NormalFormTrainer with RegretMatchingPlayers.  nf_cum_regrets[p] is the *)
(* cum_regrets vector of player p, nf_ep_strategies[p] the strategies      *)
(* recorded for it.                                                        *)

\* RegretMatchingPlayer(name, n_actions) with n_actions the game's action
\* count or one more; the player lists NormalFormTrainer can be handed: a
\* list is the sequence of its players' n_actions, the first player at most
\* built for more actions than the game has
PlayerActionCounts(gm) == {n_actions(gm), n_actions(gm) + 1}
PlayerLists(gm) ==
    {players \in UNION {[1..n -> PlayerActionCounts(gm)] :
                            n \in (n_players(gm) - 1)..(n_players(gm) + 1)} :
        \A k \in DOMAIN players : k > 1 => players[k] = n_actions(gm)}

\* NormalFormGame.__init__: assert len(players) == self.n_players
NormalFormGame_init_unasserted(gm, players) == TRUE

NormalFormGame_init(gm, players) == Len(players) = n_players(gm)

\* RegretMatchingPlayer.__init__ of every player of the list: cum_regrets
RECURSIVE RegretMatchingPlayers(_, _)
RegretMatchingPlayers(players, n) ==
    IF n = 0 THEN <<>>
    ELSE IF n = 1 THEN 0 :> Zeros(players[1])
    ELSE ((n - 1) :> Zeros(players[n])) @@ RegretMatchingPlayers(players, n - 1)

\* RegretMatchingPlayer.strategy of every player
nf_strategies(cr) ==
    [p \in DOMAIN cr |-> regret_matching_strategy(cr[p]).action_probs]

\* ExtensiveFormGame.play from the given history on: the histories it can
\* return, act sampling any index of positive probability; an index that is
\* not an action of the game makes play raise ValueError (err)
RECURSIVE play_from(_, _, _)
play_from(gm, strategies, history) ==
    IF is_terminal(gm, history) THEN {[err |-> FALSE, history |-> history]}
    ELSE UNION {IF b \in Actions(gm)
                THEN play_from(gm, strategies, Append(history, b))
                ELSE {[err |-> TRUE, history |-> history]} :
                   b \in {c \in 0..(Len(strategies[get_active_player(gm,
                                                       history)]) - 1) :
                            RPos(strategies[get_active_player(gm, history)]
                                           [c + 1])}}

\* RegretMatchingPlayer.update_strategy raises ValueError when the loop over
\* range(self.n_actions) reaches an index that is not an action of the game
update_strategy_raises(gm, regrets) == Len(regrets) > n_actions(gm)

\* RegretMatchingPlayer.update_strategy: the new cum_regrets of the player
RegretMatchingPlayer_update_strategy(gm, regrets, history, player_id) ==
    LET counterfactual_rewards ==
            Vec([k \in 1..Len(regrets) |->
                get_payoffs(gm, [history EXCEPT ![player_id + 1] = k - 1])
                    .val[player_id + 1]])
        my_action == history[player_id + 1]
    IN  Vec([k \in 1..Len(regrets) |->
            RAdd(regrets[k], RSub(counterfactual_rewards[k],
                                  counterfactual_rewards[my_action + 1]))])

\* the list handed to update_strategy as the call leaves it: the loop
\* writes each action into counterfactual_history = copy(history), never
\* into history
history_after_update_without_copy(gm, regrets, history, player_id) ==
    [history EXCEPT ![player_id + 1] = Len(regrets) - 1]

history_after_update(gm, regrets, history, player_id) == history

\* if player not in freeze_ls
is_trained_always(player, freeze_ls) == TRUE

is_trained(player, freeze_ls) == player \notin freeze_ls

after_game_player_recorded_late(gm, S, history, freeze_ls, k) ==
    [cum_regrets |->
        IF is_trained(k, freeze_ls)
           /\ ~update_strategy_raises(gm, S.cum_regrets[k])
        THEN [S.cum_regrets EXCEPT ![k] =
                RegretMatchingPlayer_update_strategy(gm, @, history, k)]
        ELSE S.cum_regrets,
     ep_strategies |->
        [S.ep_strategies EXCEPT ![k] =
            Append(@, regret_matching_strategy(
                          IF is_trained(k, freeze_ls)
                             /\ ~update_strategy_raises(gm, S.cum_regrets[k])
                          THEN RegretMatchingPlayer_update_strategy(
                                   gm, S.cum_regrets[k], history, k)
                          ELSE S.cum_regrets[k]).action_probs)],
     updated |-> IF is_trained(k, freeze_ls)
                    /\ ~update_strategy_raises(gm, S.cum_regrets[k])
                 THEN S.updated \cup {k} ELSE S.updated,
     err |-> is_trained(k, freeze_ls)
             /\ update_strategy_raises(gm, S.cum_regrets[k]),
     history |-> IF is_trained(k, freeze_ls)
                    /\ ~update_strategy_raises(gm, S.cum_regrets[k])
                 THEN history_after_update(gm, S.cum_regrets[k], history, k)
                 ELSE history]

\* lines 70-73: the body of the loop over the players for player k
after_game_player(gm, S, history, freeze_ls, k) ==
    [cum_regrets |->
        IF is_trained(k, freeze_ls)
           /\ ~update_strategy_raises(gm, S.cum_regrets[k])
        THEN [S.cum_regrets EXCEPT ![k] =
                RegretMatchingPlayer_update_strategy(gm, @, history, k)]
        ELSE S.cum_regrets,
     ep_strategies |->
        [S.ep_strategies EXCEPT ![k] =
            Append(@, regret_matching_strategy(S.cum_regrets[k])
                          .action_probs)],
     updated |-> IF is_trained(k, freeze_ls)
                    /\ ~update_strategy_raises(gm, S.cum_regrets[k])
                 THEN S.updated \cup {k} ELSE S.updated,
     err |-> is_trained(k, freeze_ls)
             /\ update_strategy_raises(gm, S.cum_regrets[k]),
     history |-> IF is_trained(k, freeze_ls)
                    /\ ~update_strategy_raises(gm, S.cum_regrets[k])
                 THEN history_after_update(gm, S.cum_regrets[k], history, k)
                 ELSE history]

\* lines 69-73: the loop over the players after one game, from player k on;
\* an update that raises ends it (err).  history is the list play returned,
\* S.history the same list as the updates so far have left it
RECURSIVE after_game(_, _, _, _, _)
after_game(gm, S, history, freeze_ls, k) ==
    IF k = n_players(gm) \/ S.err THEN S
    ELSE Only({after_game(gm, S1, history, freeze_ls, k + 1) :
                  S1 \in {after_game_player(gm, S, S.history, freeze_ls,
                                            k)}})

\* np.mean(rows, axis=0) of rows of n entries each
RECURSIVE SumRows(_, _)
SumRows(rows, n) ==
    IF Len(rows) = 0 THEN Zeros(n)
    ELSE VAdd(SumRows(SubSeq(rows, 1, Len(rows) - 1), n), rows[Len(rows)])
Mean(rows, n) ==
    Vec([k \in 1..n |-> RDiv(SumRows(rows, n)[k], R(Len(rows)))])

\* ep_payoffs[-n_iters:]
LastRows(rows, n) ==
    IF n = 0 \/ n >= Len(rows) THEN rows
    ELSE SubSeq(rows, Len(rows) - n + 1, Len(rows))

\* NormalFormTrainer.avg_payoffs
avg_payoffs(ep_payoffs, gm) == Mean(ep_payoffs, n_players(gm))

\* NormalFormTrainer.avg_strategies
avg_strategies(ep_strategies, players) ==
    [p \in DOMAIN ep_strategies |-> Mean(ep_strategies[p], players[p + 1])]

\* NormalFormTrainer(Game, players): the trainer and its players, or the
\* AssertionError of NormalFormGame.__init__
InitNF ==
    /\ nf_game \in NormalFormGames
    /\ nf_players \in PlayerLists(nf_game)
    /\ nf_pc = IF NormalFormGame_init(nf_game, nf_players)
               THEN "idle" ELSE "AssertionError"
    /\ nf_cum_regrets = RegretMatchingPlayers(nf_players, Len(nf_players))
    /\ nf_n_iters = 0 /\ nf_i = 0
    /\ nf_freeze_ls = {}
    /\ nf_ep_payoffs = <<>> /\ nf_ep_histories = <<>>
    /\ nf_ep_strategies = [p \in DOMAIN nf_cum_regrets |-> <<>>]
    /\ nf_snap = nf_cum_regrets
    /\ nf_game_snap = nf_cum_regrets
    /\ nf_held = <<>>
    /\ nf_played = <<>>
    /\ nf_call_start = 0
    /\ nf_avg = <<>>
    /\ nf_updated = {}
    /\ nf_games_played = 0 /\ nf_calls = 0
    /\ nf_ret = <<>>
    /\ RmOff /\ GOff /\ CfrOff

\* train(freeze_ls), up to the loop
NFTrainBegin ==
    /\ nf_pc = "idle"
    /\ nf_calls < MaxCalls
    /\ \E n \in 0..(MaxGames - nf_games_played) : nf_n_iters' = n
    /\ \E fl \in SUBSET Players(nf_game) : nf_freeze_ls' = fl
    /\ nf_i' = 0
    /\ nf_snap' = nf_cum_regrets
    /\ nf_call_start' = nf_games_played
    /\ nf_updated' = {}
    /\ nf_avg' = <<>>
    /\ nf_pc' = "loop"
    /\ UNCHANGED <<nf_game, nf_players, nf_cum_regrets, nf_ep_payoffs,
                   nf_ep_histories, nf_ep_strategies, nf_game_snap, nf_held,
                   nf_played, nf_games_played, nf_calls, nf_ret,
                   rm_vars, g_vars, cfr_vars>>

\* one pass of the loop: lines 65-77; play() or a player's update_strategy
\* may raise, which ends train
NFTrainGame ==
    /\ nf_pc = "loop"
    /\ range_has_next(nf_i, nf_n_iters)
    /\ nf_game_snap' = nf_cum_regrets
    /\ \E played \in play_from(nf_game, nf_strategies(nf_cum_regrets), <<>>) :
          IF played.err
          THEN /\ nf_pc' = "play_error"
               /\ UNCHANGED <<nf_ep_payoffs, nf_ep_histories, nf_cum_regrets,
                              nf_ep_strategies, nf_updated, nf_held, nf_i,
                              nf_played, nf_games_played>>
          ELSE \E S \in {after_game(nf_game,
                            [cum_regrets |-> nf_cum_regrets,
                             ep_strategies |-> nf_ep_strategies,
                             updated |-> nf_updated, err |-> FALSE,
                             history |-> played.history],
                            played.history, nf_freeze_ls, 0)} :
                   /\ nf_ep_payoffs' =
                          Append(nf_ep_payoffs,
                                 get_payoffs(nf_game, played.history).val)
                   /\ nf_ep_histories' = Append(nf_ep_histories, S.history)
                   /\ nf_played' = Append(nf_played,
                          [history |-> played.history,
                           freeze_ls |-> nf_freeze_ls, err |-> S.err])
                   /\ nf_cum_regrets' = S.cum_regrets
                   /\ nf_ep_strategies' = S.ep_strategies
                   /\ nf_updated' = S.updated
                   /\ nf_held' = Append(nf_held, nf_strategies(nf_cum_regrets))
                   /\ nf_pc' = IF S.err THEN "update_error" ELSE "loop"
                   /\ nf_i' = IF S.err THEN nf_i ELSE nf_i + 1
                   /\ nf_games_played' = nf_games_played + 1
    /\ UNCHANGED <<nf_game, nf_players, nf_n_iters, nf_freeze_ls, nf_snap,
                   nf_call_start, nf_avg, nf_calls, nf_ret,
                   rm_vars, g_vars, cfr_vars>>

\* line 78: return np.mean(self.ep_payoffs[-self.n_iters:], axis=0)
NFTrainEnd ==
    /\ nf_pc = "loop"
    /\ ~range_has_next(nf_i, nf_n_iters)
    /\ nf_ret' = Mean(LastRows(nf_ep_payoffs, nf_n_iters), n_players(nf_game))
    /\ nf_calls' = nf_calls + 1
    /\ nf_pc' = "idle"
    /\ UNCHANGED <<nf_game, nf_players, nf_cum_regrets, nf_n_iters, nf_i,
                   nf_freeze_ls, nf_ep_payoffs, nf_ep_histories,
                   nf_ep_strategies, nf_snap, nf_game_snap, nf_held, nf_played,
                   nf_call_start, nf_avg, nf_updated, nf_games_played,
                   rm_vars, g_vars, cfr_vars>>

\* reading the properties avg_payoffs and avg_strategies of the trainer
NFReadAverages ==
    /\ nf_pc = "idle"
    /\ nf_avg' = [avg_payoffs |-> avg_payoffs(nf_ep_payoffs, nf_game),
                  avg_strategies |-> avg_strategies(nf_ep_strategies,
                                                    nf_players),
                  games |-> nf_games_played]
    /\ UNCHANGED <<nf_game, nf_players, nf_pc, nf_cum_regrets, nf_n_iters,
                   nf_i, nf_freeze_ls, nf_ep_payoffs, nf_ep_histories,
                   nf_ep_strategies, nf_snap, nf_game_snap, nf_held, nf_played,
                   nf_call_start, nf_updated, nf_games_played, nf_calls,
                   nf_ret, rm_vars, g_vars, cfr_vars>>

NextNF ==
    \/ NFTrainBegin
    \/ NFTrainGame
    \/ NFTrainEnd
    \/ NFReadAverages

SpecNF == InitNF /\ [][NextNF]_vars

\* C6: during and after a call train(freeze_ls) every player of freeze_ls
\* has the cum_regrets it had when the call began, update_strategy has been
\* invoked on no player of freeze_ls and, once a game was played, on every
\* other player; the frozen players acted in every game played.
C6_FrozenPlayersKeepTables ==
    nf_pc \in {"loop", "idle"} =>
        /\ \A p \in nf_freeze_ls : nf_cum_regrets[p] = nf_snap[p]
        /\ nf_updated \cap nf_freeze_ls = {}
        /\ nf_i > 0 => nf_updated = Players(nf_game) \ nf_freeze_ls
        /\ \A p \in nf_freeze_ls :
               /\ Len(nf_ep_strategies[p]) = nf_games_played
               /\ \A g \in 1..nf_games_played :
                      RPos(nf_ep_strategies[p][g][nf_ep_histories[g][p + 1] + 1])

C6_Witness ==
    /\ nf_pc = "idle"
    /\ nf_calls = 2
    /\ nf_freeze_ls = {0}
    /\ nf_n_iters = 1
    /\ nf_games_played = 2
    /\ nf_snap[0] # Zeros(n_actions(nf_game))
    /\ nf_cum_regrets[0] = nf_snap[0]
    /\ nf_cum_regrets[1] # nf_snap[1]

\* C13: a trainer built with a player list of the wrong length is in the
\* failed state of the constructor's assertion and has played nothing; when
\* play() raises on an index outside the action set, no cum_regrets has
\* changed since before that game, the game has left no record, and no
\* recorded history holds an index outside the action set.
C13_MisconfigurationFailsLoudly ==
    /\ Len(nf_players) # n_players(nf_game) =>
           /\ nf_pc = "AssertionError"
           /\ nf_games_played = 0 /\ nf_calls = 0
           /\ nf_ep_payoffs = <<>> /\ nf_ep_histories = <<>>
    /\ nf_pc = "play_error" =>
           /\ nf_cum_regrets = nf_game_snap
           /\ Len(nf_ep_payoffs) = nf_games_played
           /\ Len(nf_ep_histories) = nf_games_played
           /\ \A p \in Players(nf_game) :
                  Len(nf_ep_strategies[p]) = nf_games_played
    /\ \A g \in 1..Len(nf_ep_histories) :
           \A k \in 1..Len(nf_ep_histories[g]) :
               nf_ep_histories[g][k] \in Actions(nf_game)

C13_Witness ==
    /\ nf_pc = "play_error"
    /\ nf_players[1] = n_actions(nf_game) + 1
    /\ nf_games_played = 1
    /\ nf_i = 1
    /\ \E p \in Players(nf_game) :
          nf_cum_regrets[p] # Zeros(n_actions(nf_game))

C13_WitnessConstructor ==
    /\ nf_pc = "AssertionError"
    /\ Len(nf_players) = n_players(nf_game) + 1

\* C14: while train calls run and after them, every player, frozen or not,
\* has one recorded strategy per game played, the one it held when that
\* game was played; ep_payoffs and ep_histories have one entry per game;
\* and avg_strategies, read after at least one game, is the arithmetic mean
\* of the recorded strategies.
C14_OneStrategyPerGame ==
    /\ nf_pc \in {"idle", "loop"} =>
           /\ Len(nf_ep_payoffs) = nf_games_played
           /\ Len(nf_ep_histories) = nf_games_played
           /\ \A p \in Players(nf_game) :
                  /\ Len(nf_ep_strategies[p]) = nf_games_played
                  /\ \A g \in 1..nf_games_played :
                         nf_ep_strategies[p][g] = nf_held[g][p]
    /\ (nf_avg # <<>> /\ nf_games_played > 0) =>
           \A p \in Players(nf_game) : \A k \in 1..nf_players[p + 1] :
               RMul(nf_avg.avg_strategies[p][k], R(nf_games_played)) =
                   SumRows(nf_ep_strategies[p], nf_players[p + 1])[k]

C14_Witness ==
    /\ nf_pc = "idle"
    /\ nf_avg # <<>>
    /\ nf_calls = 2
    /\ nf_games_played = 2
    /\ nf_call_start = 1
    /\ nf_freeze_ls = {1}
    /\ nf_ep_strategies[0][1] # nf_ep_strategies[0][2]
    /\ nf_ep_strategies[1][1] # nf_ep_strategies[1][2]
    /\ nf_cum_regrets[0] # nf_game_snap[0]

\* C15: the value a train call returns is the per-player mean of the
\* payoffs of exactly the games that call played (of no game when it played
\* none), and avg_payoffs is the mean over all games of the trainer.
C15_TrainReturnsMeanOfItsGames ==
    /\ (nf_pc = "idle" /\ nf_calls > 0) =>
           nf_ret = Mean(SubSeq(nf_ep_payoffs, nf_call_start + 1,
                                nf_games_played), n_players(nf_game))
    /\ (nf_avg # <<>> /\ nf_games_played > 0) =>
           \A q \in 1..n_players(nf_game) :
               RMul(nf_avg.avg_payoffs[q], R(nf_games_played)) =
                   SumRows(nf_ep_payoffs, n_players(nf_game))[q]

---------------------------------------------------------------------------
(* Either trainer *)

Init == InitCFR \/ InitNF
Next == NextCFR \/ NextNF
Spec == Init /\ [][Next]_vars

\* the game played last, what play returned for it, and whether player p
\* was updated after it
LastGame == nf_played[Len(nf_played)]
UpdatedAfterLastGame(p) ==
    /\ p \in Players(nf_game)
    /\ p \notin LastGame.freeze_ls
    /\ ~LastGame.err

\* payoff_p(h with position p replaced by a)
PayoffWith(h, p, a) ==
    get_payoffs(nf_game, [h EXCEPT ![p + 1] = a]).val[p + 1]

\* the updates of the loop over the players after one game, made from the
\* last player down to player k: the regrets they leave
RECURSIVE updates_reversed(_, _, _, _)
updates_reversed(regrets, history, freeze_ls, k) ==
    IF k < 0 THEN regrets
    ELSE IF ~is_trained(k, freeze_ls)
    THEN updates_reversed(regrets, history, freeze_ls, k - 1)
    ELSE updates_reversed(
             [regrets EXCEPT ![k] =
                 RegretMatchingPlayer_update_strategy(nf_game, @, history, k)],
             history_after_update(nf_game, regrets[k], history, k),
             freeze_ls, k - 1)

\* C26: after a game with realized history h, every unfrozen player p has
\* had payoff_p(h with p's action replaced by a) - payoff_p(h) added to
\* cum_regrets[a] for every own action a, the other players' realized
\* actions held fixed, so the entry of the action it took is unchanged; the
\* history is left as play returned it; and updating the players in the
\* opposite order gives the same regrets
C26_RegretUpdateAfterGame ==
    (Len(nf_played) > 0 /\ ~LastGame.err /\ nf_pc = "loop") =>
        LET h == LastGame.history
        IN  /\ nf_ep_histories[Len(nf_ep_histories)] = h
            /\ \A p \in Players(nf_game) :
                   IF UpdatedAfterLastGame(p)
                   THEN /\ \A a \in Actions(nf_game) :
                               nf_cum_regrets[p][a + 1] =
                                   RAdd(nf_game_snap[p][a + 1],
                                        RSub(PayoffWith(h, p, a),
                                             get_payoffs(nf_game, h)
                                                 .val[p + 1]))
                        /\ nf_cum_regrets[p][h[p + 1] + 1] =
                               nf_game_snap[p][h[p + 1] + 1]
                   ELSE nf_cum_regrets[p] = nf_game_snap[p]
            /\ nf_cum_regrets =
                   updates_reversed(nf_game_snap, h, LastGame.freeze_ls,
                                    n_players(nf_game) - 1)

\* two players were updated after a game in which neither took its last
\* action, and the regrets of both changed
C26_Witness ==
    /\ Len(nf_played) > 0
    /\ ~LastGame.err
    /\ nf_pc = "loop"
    /\ \A p \in Players(nf_game) :
           /\ UpdatedAfterLastGame(p)
           /\ LastGame.history[p + 1] # n_actions(nf_game) - 1
           /\ nf_cum_regrets[p] # nf_game_snap[p]

\* PRISONER_DILEMMA_ACTIONS
SNITCH == 0
SILENCE == 1

C7_ZeroIterationsChangeNothing ==
    /\ (pc \in {"loop", "idle", "KeyError"} /\ n_iters = 0) => Tables = snap
    /\ (nf_pc \in {"loop", "idle"} /\ nf_n_iters = 0) => nf_cum_regrets = nf_snap

C7_Witness ==
    /\ pc = "idle"
    /\ n_calls = 2
    /\ n_iters = 0
    /\ total_iters = 2
    /\ \E p \in Players(game) : \E infostate \in DOMAIN strategy_sum[p] :
          VSum(strategy_sum[p][infostate]) # Zero
    /\ Tables = snap

C7_WitnessNormalForm ==
    /\ nf_pc = "idle"
    /\ nf_calls = 2
    /\ nf_n_iters = 0
    /\ nf_games_played = 2
    /\ \E p \in Players(nf_game) : nf_cum_regrets[p] # Zeros(n_actions(nf_game))

=============================================================================
